---- MODULE Spec2Model ----
(***************************************************************************)
(* kube-pulse: the dashboard's Update reducer (bubbletea model), its       *)
(* filter/sort engine, the confirm flows and the port-forward registry.    *)
(* Strings are sequences of one-character strings so that ToLower,         *)
(* Contains, "<" and the registry key concatenation are computed.          *)
(***************************************************************************)
EXTENDS Integers, Sequences, FiniteSets, Bags, TLC

\* ------------------------------------------------------------------ bounds
MaxPods == 3        \* longest workload snapshot the cluster returns
MaxTerm == 1        \* longest search term the operator types
MaxInflight == 1    \* asynchronous commands of one kind running at a time
MaxProcs == 2       \* kubectl port-forward children alive at a time
MaxFetches == 2     \* fetches of one kind running at a time when refreshes overlap
MaxContainers == 2  \* most container statuses and metrics containers of one pod

\* ti.CharLimit
CharLimit == 156
\* the port forwarded to when the pod declares none
DefaultPort == 80
\* the rows of the screen that are not table rows, and the capacity used when
\* the terminal leaves no room
ChromeRows == 12
FallbackPerPage == 5
\* bytes per Mi in the memory column
MiB == 1048576

\* ------------------------------------------------------- session constants
viewList == "viewList"
viewLogs == "viewLogs"
viewDiagnosis == "viewDiagnosis"
viewYaml == "viewYaml"
viewDeleteConfirm == "viewDeleteConfirm"
viewRestartConfirm == "viewRestartConfirm"
viewCleanseConfirm == "viewCleanseConfirm"
viewContainerSelect == "viewContainerSelect"

sortDefault == "sortDefault"
sortCPU == "sortCPU"
sortMem == "sortMem"

NsALL == <<"A", "L", "L">>

\* ------------------------------------------------------------ string model
\* byte order of the characters used (Go compares strings bytewise)
Ord(ch) ==
    CASE ch = "/" -> 47
      [] ch = "A" -> 65
      [] ch = "C" -> 67
      [] ch = "L" -> 76
      [] ch = "Q" -> 81
      [] ch = "c" -> 99
      [] ch = "d" -> 100
      [] ch = "p" -> 112
      [] ch = "q" -> 113
      [] OTHER -> 120

LowerCh(ch) ==
    CASE ch = "A" -> "a"
      [] ch = "C" -> "c"
      [] ch = "L" -> "l"
      [] ch = "Q" -> "q"
      [] OTHER -> ch

ToLower(s) == [i \in 1..Len(s) |-> LowerCh(s[i])]

Contains(s, sub) ==
    \E i \in 0..(Len(s) - Len(sub)) : SubSeq(s, i + 1, i + Len(sub)) = sub

\* a < b on strings: first differing byte decides, a proper prefix is smaller
StrLess(a, b) ==
    \E i \in 1..(Len(b)) :
        /\ \A j \in 1..(i - 1) : j <= Len(a) /\ a[j] = b[j]
        /\ \/ i = Len(a) + 1
           \/ i <= Len(a) /\ Ord(a[i]) < Ord(b[i])

\* fmt.Sprintf("%d", n)
Digit(d) ==
    CASE d = 0 -> "0" [] d = 1 -> "1" [] d = 2 -> "2" [] d = 3 -> "3" [] d = 4 -> "4"
      [] d = 5 -> "5" [] d = 6 -> "6" [] d = 7 -> "7" [] d = 8 -> "8" [] OTHER -> "9"

RECURSIVE Itoa(_)
Itoa(n) ==
    IF n < 0 THEN <<"-">> \o Itoa(-n)
    ELSE IF n < 10 THEN <<Digit(n)>>
    ELSE Itoa(n \div 10) \o <<Digit(n % 10)>>

\* ------------------------------------------------- fetchPods: the merge
\* A pod of the API is [Namespace, Name, Phase, Spec (the containers of the
\* spec: [Name, Ports]), ContainerStatuses ([RestartCount, Ready, Waiting,
\* Terminated, ExitCode]; Waiting and Terminated are the reason, "" when the
\* state is nil or has no reason)]. A pod of the metrics API is [Namespace, Name,
\* Containers ([Cpu, Mem]: milli-cores and bytes)].

RECURSIVE UsageTotal(_)
UsageTotal(cs) ==
    IF cs = <<>> THEN [Cpu |-> 0, Mem |-> 0]
    ELSE LET rest == UsageTotal(Tail(cs))
         IN  [Cpu |-> Head(cs).Cpu + rest.Cpu, Mem |-> Head(cs).Mem + rest.Mem]

\* uMap: the usage summed over the containers, per namespace/name; a later item
\* of the same key replaces an earlier one; a failed metrics call (nil) leaves
\* the map empty as an empty list does
uMapOf(mList) ==
    LET KeyOf(i) == mList[i].Namespace \o <<"/">> \o mList[i].Name
        keys == {KeyOf(i) : i \in 1..Len(mList)}
        Last(key) == CHOOSE i \in 1..Len(mList) :
                         /\ KeyOf(i) = key
                         /\ \A j \in 1..Len(mList) : KeyOf(j) = key => j <= i
    IN  [key \in keys |-> UsageTotal(mList[Last(key)].Containers)]

RECURSIVE RestartSum(_)
RestartSum(sts) ==
    IF sts = <<>> THEN 0 ELSE Head(sts).RestartCount + RestartSum(Tail(sts))

RECURSIVE ReadyCount(_)
ReadyCount(sts) ==
    IF sts = <<>> THEN 0
    ELSE (IF Head(sts).Ready THEN 1 ELSE 0) + ReadyCount(Tail(sts))

\* the loop over the container statuses: msg at its end, having started as note
RECURSIVE LoopNote(_, _)
LoopNote(sts, note) ==
    IF sts = <<>> THEN note
    ELSE LET c == Head(sts)
         IN  LoopNote(Tail(sts),
                 IF c.Waiting # "" THEN <<c.Waiting>>
                 ELSE IF c.Terminated # ""
                      THEN (IF c.ExitCode # 0
                            THEN <<c.Terminated, " (">> \o Itoa(c.ExitCode) \o <<")">>
                            ELSE <<c.Terminated>>)
                      ELSE note)

\* msg of one pod
Note(p) ==
    LET sts == p.ContainerStatuses
        loop == LoopNote(sts, <<"[OK]">>)
        running == IF p.Phase = "Running" /\ ReadyCount(sts) = Len(sts)
                   THEN <<"[OK]">> ELSE loop
    IN  IF p.Phase = "Succeeded" THEN <<"Completed">> ELSE running

\* mutant: a pod without container statuses counts as ready
OverallReady_EmptyIsReady(p) ==
    ReadyCount(p.ContainerStatuses) = Len(p.ContainerStatuses) \/ p.Phase = "Succeeded"

\* isReady of one pod
OverallReady(p) ==
    \/ /\ ReadyCount(p.ContainerStatuses) = Len(p.ContainerStatuses)
       /\ Len(p.ContainerStatuses) > 0
    \/ p.Phase = "Succeeded"

\* one iteration of the loop over pList.Items: the PodInfo appended (NodeName,
\* PodIP and Age are copied or derived from the clock and are left out)
PodInfoOf(p, uMap) ==
    LET key == p.Namespace \o <<"/">> \o p.Name
        known == key \in DOMAIN uMap
        rawCpu == IF known THEN uMap[key].Cpu ELSE 0
        rawMem == IF known THEN uMap[key].Mem ELSE 0
    IN  [Namespace |-> p.Namespace,
         Name |-> p.Name,
         Ready |-> Itoa(ReadyCount(p.ContainerStatuses)) \o <<"/">>
                       \o Itoa(Len(p.ContainerStatuses)),
         Status |-> p.Phase,
         Restarts |-> RestartSum(p.ContainerStatuses),
         CpuUsage |-> IF known THEN Itoa(rawCpu) \o <<"m">> ELSE <<"-">>,
         MemUsage |-> IF known THEN Itoa(rawMem \div MiB) \o <<"M", "i">> ELSE <<"-">>,
         RawCpu |-> rawCpu,
         RawMem |-> rawMem,
         IsReady |-> OverallReady(p),
         Message |-> Note(p),
         Port |-> IF Len(p.Spec) > 0 /\ Len(p.Spec[1].Ports) > 0
                  THEN p.Spec[1].Ports[1] ELSE 0,
         Containers |-> [i \in 1..Len(p.Spec) |-> p.Spec[i].Name]]

\* list at the end of the loop: the PodInfo of every item, in the order of the
\* list call
MergedList(items, mList) ==
    [i \in 1..Len(items) |-> PodInfoOf(items[i], uMapOf(mList))]

\* the fields of a PodInfo that Update and filterPods read; the others (Ready,
\* CpuUsage, MemUsage, Message) are read by View only
Row(info) ==
    [Namespace |-> info.Namespace, Name |-> info.Name, Status |-> info.Status,
     Restarts |-> info.Restarts, IsReady |-> info.IsReady, RawCpu |-> info.RawCpu,
     RawMem |-> info.RawMem, Port |-> info.Port, Containers |-> info.Containers]

\* podsMsg(list), as Update reads it
fetchPods(items, mList) ==
    [i \in 1..Len(items) |-> Row(MergedList(items, mList)[i])]

\* --------------------------------------------------------------- workloads
\* container statuses: running and ready, restarted once
Up == [RestartCount |-> 0, Ready |-> TRUE, Waiting |-> "", Terminated |-> "", ExitCode |-> 0]
UpAgain == [Up EXCEPT !.RestartCount = 1]

\* a ready single-container pod with a metrics sample
ApiPodA ==
    [Namespace |-> <<"d">>, Name |-> <<"c">>, Phase |-> "Running",
     Spec |-> <<[Name |-> "m", Ports |-> <<>>]>>, ContainerStatuses |-> <<Up>>]
\* a pod of two containers that has not been scheduled: no statuses, no sample
ApiPodB ==
    [Namespace |-> <<"d">>, Name |-> <<"c", "q">>, Phase |-> "Pending",
     Spec |-> <<[Name |-> "m", Ports |-> <<8>>], [Name |-> "s", Ports |-> <<>>]>>,
     ContainerStatuses |-> <<>>]
\* a pod whose spec lists no container, restarted once, with a sample
ApiPodC ==
    [Namespace |-> <<"p">>, Name |-> <<"q">>, Phase |-> "Running",
     Spec |-> <<>>, ContainerStatuses |-> <<UpAgain>>]

\* what the metrics API returns for them
ClusterMetrics ==
    <<[Namespace |-> <<"d">>, Name |-> <<"c">>, Containers |-> <<[Cpu |-> 2, Mem |-> 1]>>],
      [Namespace |-> <<"p">>, Name |-> <<"q">>, Containers |-> <<[Cpu |-> 2, Mem |-> 3]>>]>>

\* the rows fetchPods makes of them
PodA ==
    [Namespace |-> <<"d">>, Name |-> <<"c">>, Status |-> "Running", Restarts |-> 0,
     IsReady |-> TRUE, RawCpu |-> 2, RawMem |-> 1, Port |-> 0, Containers |-> <<"m">>]
PodB ==
    [Namespace |-> <<"d">>, Name |-> <<"c", "q">>, Status |-> "Pending", Restarts |-> 0,
     IsReady |-> FALSE, RawCpu |-> 0, RawMem |-> 0, Port |-> 8, Containers |-> <<"m", "s">>]
PodC ==
    [Namespace |-> <<"p">>, Name |-> <<"q">>, Status |-> "Running", Restarts |-> 1,
     IsReady |-> TRUE, RawCpu |-> 2, RawMem |-> 3, Port |-> 0, Containers |-> <<>>]

\* the states a container status is listed in: running (ready, ready after a
\* restart, not ready), waiting with a reason, terminated with and without error
ContainerStates ==
    {Up, UpAgain,
     [Up EXCEPT !.Ready = FALSE],
     [Up EXCEPT !.Ready = FALSE, !.RestartCount = 1, !.Waiting = "CrashLoopBackOff"],
     [Up EXCEPT !.Ready = FALSE, !.Terminated = "Error", !.ExitCode = 1],
     [Up EXCEPT !.Ready = FALSE, !.Terminated = "Completed"]}

Phases == {"Pending", "Running", "Succeeded", "Failed"}

\* the pods the merge is studied on: every phase with every list of statuses
ApiPods ==
    {[ApiPodA EXCEPT !.Phase = ph, !.ContainerStatuses = sts] :
        ph \in Phases,
        sts \in UNION {[1..n -> ContainerStates] : n \in 0..MaxContainers}}

\* the answers of the metrics API: none or empty, a sample of the pod for each
\* number of containers, a sample of another pod only
MetricLists ==
    {<<>>, <<ClusterMetrics[2]>>}
    \cup {<<[ClusterMetrics[1] EXCEPT
                !.Containers = [i \in 1..n |-> [Cpu |-> i, Mem |-> i * MiB + i]]]>> :
            n \in 1..MaxContainers}

\* the order in which the API server lists them
ClusterPods == <<PodA, PodB, PodC>>

RECURSIVE SubLists(_)
SubLists(s) ==
    IF s = <<>> THEN {<<>>}
    ELSE LET rest == SubLists(Tail(s))
         IN  rest \cup {<<Head(s)>> \o r : r \in rest}

\* payloads of podsMsg: the pods that exist at the time of the list call
Snapshots == {s \in SubLists(ClusterPods) : Len(s) <= MaxPods}

\* payloads of nsMsg (sort.Strings applied)
NamespaceLists == {<<<<"d">>>>, <<<<"d">>, <<"p">>>>}

PodKey(p) == p.Namespace \o <<"/">> \o p.Name


\* ------------------------------------------------------------------- state
\* ClusterStats{}: the zero value, held before the first statsMsg and sent by
\* fetchClusterStats when the node list fails
NoStats ==
    [TotalCpuUsage |-> 0, TotalMemUsage |-> 0, TotalCpuCap |-> 0, TotalMemCap |-> 0,
     NodeCount |-> 0]
\* two summaries of a cluster that answered; the second without node metrics
StatsA ==
    [TotalCpuUsage |-> 1, TotalMemUsage |-> 2, TotalCpuCap |-> 4, TotalMemCap |-> 8,
     NodeCount |-> 1]
StatsB ==
    [TotalCpuUsage |-> 0, TotalMemUsage |-> 0, TotalCpuCap |-> 8, TotalMemCap |-> 16,
     NodeCount |-> 2]
StatsResults == {StatsA, StatsB}

VARIABLES
    phase,          \* "running", "quit" (tea.Quit returned) or "panic" (run-time panic in Update)
    pods,           \* m.pods: the latest applied workload snapshot
    filteredPods,   \* m.filteredPods
    namespaces,     \* m.namespaces
    currentNsIdx,   \* m.currentNsIdx (0-based, as in the code)
    state,          \* m.state
    sort,           \* m.sort
    cursor,         \* m.cursor (0-based)
    showIssues,     \* m.showIssues
    msg,            \* m.msg: the status line
    searchActive,   \* m.searchActive
    textInput,      \* m.textInput.Value()
    podToDelete,    \* m.podToDelete: <<>> is nil, <<p>> points to a copy of p
    selectedPod,    \* m.selectedPod: <<>> is nil, <<p>> points to a copy of p
    containerList,  \* m.containerList
    containerCursor,\* m.containerCursor
    targetAction,   \* m.targetAction
    activeForwards, \* m.activeForwards: key -> handle (pid) of the child started for it
    procs,          \* the port-forward children alive in the operating system: [pid, key]
    inflight,       \* bag of the asynchronous commands started and not yet completed
    cmds,           \* the commands returned by the last call of Update (or by Init)
    stopAlls,       \* how many times the quit handler has signaled the registry
    clusterStats,   \* m.clusterStats
    height,         \* m.height
    viewport,       \* the content of m.viewport: <<>> when it is empty, <<c>> when it
                    \* holds the result of the one-shot fetch c
    follow,         \* per kind of fetch followed: cap, how many of them the runtime runs at a time
                    \* (0: the results of that kind are not followed), and ordered,
                    \* whether their start order is recorded
    overtaken,      \* per kind of fetch: the fetches in flight, oldest first; TRUE for one
                    \* that a fetch started after it has already answered
    lastStale,      \* per kind of fetch: the result applied last was an overtaken one
    pList,          \* fetchPods under study: the items of the pod list call
    mList,          \* and of the metrics list call,
    merged,         \* and the list it produced: <<>> before it has run, <<list>> after
    tieOrder        \* how the sort.Slice of the build arranges elements that compare
                    \* equal: "kept" in the order they came in, "reversed", or "any"
                    \* when the build is left open and each call may arrange them
                    \* in any way

vars ==
    <<phase, pods, filteredPods, namespaces, currentNsIdx, state, sort, cursor,
      showIssues, msg, searchActive, textInput, podToDelete, selectedPod,
      containerList, containerCursor, targetAction, activeForwards, procs,
      inflight, cmds, stopAlls, clusterStats, height, viewport, follow, overtaken,
      lastStale,
      pList, mList, merged, tieOrder>>

snapshotVars == <<pods, filteredPods>>
filterVars == <<namespaces, currentNsIdx, showIssues, sort, textInput>>
pickerVars == <<selectedPod, containerList, containerCursor, targetAction>>
registryVars == <<activeForwards, procs, stopAlls>>
screenVars == <<clusterStats, height, viewport>>
fetchVars == <<follow, overtaken, lastStale>>
buildVars == <<tieOrder>>
mergeVars == <<pList, mList, merged>>

\* ------------------------------------------------------ filter/sort engine
\* mutant: the restart count is not looked at
IsHealthy_IgnoresRestarts(p) ==
    (p.Status = "Running" \/ p.Status = "Succeeded") /\ p.IsReady

\* the issues-only test of filterPods: such a pod is dropped
IsHealthy(p) ==
    (p.Status = "Running" \/ p.Status = "Succeeded") /\ p.Restarts = 0 /\ p.IsReady

\* mutant: a pod is kept when any one of the predicates lets it pass
KeepPod_Union(p, selectedNs, issues, searchTerm) ==
    \/ ~(selectedNs # NsALL /\ p.Namespace # selectedNs)
    \/ ~(issues /\ IsHealthy(p))
    \/ ~(searchTerm # <<>> /\ ~Contains(ToLower(p.Name), searchTerm))

\* one iteration of the loop of filterPods: TRUE when p is appended to target
KeepPod(p, selectedNs, issues, searchTerm) ==
    /\ ~(selectedNs # NsALL /\ p.Namespace # selectedNs)
    /\ ~(issues /\ IsHealthy(p))
    /\ ~(searchTerm # <<>> /\ ~Contains(ToLower(p.Name), searchTerm))

RECURSIVE FilterTarget(_, _, _, _)
FilterTarget(ps, selectedNs, issues, searchTerm) ==
    IF ps = <<>> THEN <<>>
    ELSE LET rest == FilterTarget(Tail(ps), selectedNs, issues, searchTerm)
         IN  IF KeepPod(Head(ps), selectedNs, issues, searchTerm)
             THEN <<Head(ps)>> \o rest
             ELSE rest

\* mutant: the usage modes compare the other way round
SortLess_Ascending(a, b, mode) ==
    CASE mode = sortCPU -> a.RawCpu < b.RawCpu
      [] mode = sortMem -> a.RawMem < b.RawMem
      [] OTHER ->
            IF a.Status # "Running" /\ b.Status = "Running" THEN TRUE
            ELSE IF a.Status = "Running" /\ b.Status # "Running" THEN FALSE
            ELSE StrLess(a.Name, b.Name)

\* mutant: the default mode compares the names only
SortLess_NameOnly(a, b, mode) ==
    CASE mode = sortCPU -> a.RawCpu > b.RawCpu
      [] mode = sortMem -> a.RawMem > b.RawMem
      [] OTHER -> StrLess(a.Name, b.Name)

\* the less function handed to sort.Slice
SortLess(a, b, mode) ==
    CASE mode = sortCPU -> a.RawCpu > b.RawCpu
      [] mode = sortMem -> a.RawMem > b.RawMem
      [] OTHER ->
            IF a.Status # "Running" /\ b.Status = "Running" THEN TRUE
            ELSE IF a.Status = "Running" /\ b.Status # "Running" THEN FALSE
            ELSE StrLess(a.Name, b.Name)

Arrangements(n) ==
    {f \in [1..n -> 1..n] : \A i, j \in 1..n : f[i] = f[j] => i = j}

\* mutant: the elements that compare equal are placed anew at every call
Sorts_TiesFree(f, target, mode) ==
    \A i, j \in 1..Len(target) :
        i < j => ~SortLess(target[f[j]], target[f[i]], mode)

\* f arranges target in an order sort.Slice may leave it in: no element is less
\* than one placed before it, and the elements that compare equal are placed as
\* the build places them
Sorts(f, target, mode) ==
    \A i, j \in 1..Len(target) :
        i < j =>
            /\ ~SortLess(target[f[j]], target[f[i]], mode)
            /\ ~SortLess(target[f[i]], target[f[j]], mode) =>
                   /\ tieOrder = "kept" => f[i] < f[j]
                   /\ tieOrder = "reversed" => f[i] > f[j]

\* sort.Slice is not stable: any arrangement of target in which no element is
\* less than one placed before it may result; a given build computes one of them
SortSlice(target, mode) ==
    {[i \in 1..Len(target) |-> target[f[i]]] :
        f \in {g \in Arrangements(Len(target)) : Sorts(g, target, mode)}}

\* m.filterPods(): the values m.filteredPods may take
filterPods(ps, nss, nsIdx, issues, term, mode) ==
    SortSlice(FilterTarget(ps, nss[nsIdx + 1], issues, ToLower(term)), mode)


\* ------------------------------------------------- commands and the runtime
FetchPodsCmd == <<"fetchPods">>
FetchClusterStatsCmd == <<"fetchClusterStats">>
FetchNamespacesCmd == <<"fetchNamespaces">>
TickCmd == <<"tick">>
QuitCmd == <<"tea.Quit">>
BlinkCmd == <<"textinput.Blink">>
DeletePodCmd(p) == <<"deletePod", p.Namespace, p.Name>>
CleanseNamespaceCmd(ns) == <<"cleanseNamespace", ns>>
FetchLogsCmd(p, container) == <<"fetchLogs", p.Namespace, p.Name, container>>
OpenShellCmd(p, container) == <<"openShell", p.Namespace, p.Name, container>>
DiagnosePodCmd(p) == <<"diagnosePod", p.Namespace, p.Name>>
FetchYamlCmd(p) == <<"fetchYaml", p.Namespace, p.Name>>

IsDestructive(c) == c[1] \in {"deletePod", "cleanseNamespace"}

FetchKinds == {"fetchPods", "fetchClusterStats", "fetchNamespaces"}

\* the fetches started once, on entering an overlay
OneShotKinds == {"fetchLogs", "diagnosePod", "fetchYaml"}

\* the commands whose completion is followed: the destructive ones, the refresh
\* timer, and the fetches of the kinds the runtime is followed for
IsTracked(c) ==
    \/ IsDestructive(c)
    \/ c = TickCmd
    \/ (c[1] \in DOMAIN follow /\ follow[c[1]].cap > 0)

InflightCount(kind) ==
    LET cs == {c \in BagToSet(inflight) : c[1] \in kind}
        RECURSIVE Sum(_)
        Sum(S) == IF S = {} THEN 0
                  ELSE LET c == CHOOSE x \in S : TRUE
                       IN  CopiesIn(c, inflight) + Sum(S \ {c})
    IN  Sum(cs)

\* the runtime is not asked to run more than follow[kind].cap fetches of a kind at a
\* time, and the operator confirms a destructive action after the last one has
\* answered
Room(cs) ==
    /\ \A c \in cs :
           (c[1] \in DOMAIN follow /\ IsTracked(c)) =>
               InflightCount({c[1]}) < follow[c[1]].cap
    /\ (\E c \in cs : IsDestructive(c)) =>
           \A c \in BagToSet(inflight) : ~IsDestructive(c)

\* the fetches of cs join the fetches in flight, youngest last
Started(queues, cs) ==
    [kind \in FetchKinds |->
        IF \E c \in cs : c[1] = kind /\ IsTracked(c)
        THEN Append(queues[kind], FALSE) ELSE queues[kind]]

\* the i-th fetch in flight of a kind leaves the queue; when it answered, the
\* older ones still in flight have been overtaken
Leaves(kind, i, answered) ==
    LET q == overtaken[kind]
    IN  [overtaken EXCEPT ![kind] =
            [j \in 1..(Len(q) - 1) |->
                IF j < i THEN ((answered /\ follow[kind].ordered) \/ q[j])
                ELSE q[j + 1]]]

\* Update returned the batch cs: bubbletea starts every command of cs
Returns(cs) ==
    /\ Room(cs)
    /\ cmds' = cs
    /\ inflight' = inflight (+) SetToBag({c \in cs : IsTracked(c)})
    /\ overtaken' = Started(overtaken, cs)
    /\ UNCHANGED <<follow, lastStale, buildVars, mergeVars>>

\* a fetch of a kind has answered and Update has applied its result, returning
\* no command
Applied(c) ==
    /\ cmds' = {}
    /\ inflight' = inflight (-) SetToBag({c})
    /\ \E i \in 1..Len(overtaken[c[1]]) :
           /\ overtaken' = Leaves(c[1], i, TRUE)
           /\ lastStale' = [lastStale EXCEPT ![c[1]] = overtaken[c[1]][i]]
    /\ UNCHANGED <<follow, buildVars, mergeVars>>

\* command c has run to completion
Completes(c) ==
    /\ phase = "running"
    /\ BagIn(c, inflight)

\* ------------------------------------------------------------------- Init
\* initialModel
initialModel ==
    /\ phase = "running"
    /\ pods = <<>>
    /\ filteredPods = <<>>
    /\ namespaces = <<NsALL>>
    /\ currentNsIdx = 0
    /\ state = viewList
    /\ sort = sortDefault
    /\ cursor = 0
    /\ showIssues = FALSE
    /\ msg = <<"">>
    /\ searchActive = FALSE
    /\ textInput = <<>>
    /\ podToDelete = <<>>
    /\ selectedPod = <<>>
    /\ containerList = <<>>
    /\ containerCursor = 0
    /\ targetAction = ""
    /\ activeForwards = [key \in {} |-> 0]
    /\ procs = {}
    /\ stopAlls = 0
    /\ clusterStats = NoStats
    /\ height = 0
    /\ viewport = <<>>

\* the batch returned by model.Init
InitCmds == {FetchPodsCmd, FetchClusterStatsCmd, FetchNamespacesCmd, TickCmd}

\* the program has been constructed and bubbletea has started the batch of Init
Started0(f, ties) ==
    /\ initialModel
    /\ follow = f
    /\ tieOrder = ties
    /\ cmds = InitCmds
    /\ inflight = SetToBag({c \in InitCmds : IsTracked(c)})
    /\ overtaken = Started([kind \in FetchKinds |-> <<>>], InitCmds)
    /\ lastStale = [kind \in FetchKinds |-> FALSE]

\* the workload and namespace fetches are followed, MaxInflight at a time
Followed ==
    [kind \in FetchKinds |->
        [cap |-> IF kind = "fetchClusterStats" THEN 0 ELSE MaxInflight,
         ordered |-> FALSE]]

\* no run of fetchPods is studied
Unstudied == pList = <<>> /\ mList = <<>> /\ merged = <<>>

Init == Started0(Followed, "any") /\ Unstudied


\* ------------------------------------------------------ keys (msg.String())
RuneKeys ==
    {"q", "k", "j", "/", "c", "m", "n", "s", "?", "y", "r", "d", "C", "f", "Y", "N", "Q"}
NamedKeys == {"ctrl+c", "up", "down", "tab", "enter", "esc", "backspace"}
Keys == RuneKeys \cup NamedKeys

\* mutant: n is listed with the affirmative keys
AffirmKeys_WithN == {"y", "Y", "n"}

AffirmKeys == {"y", "Y"}
NegativeKeys == {"n", "N", "esc", "q"}

\* a handler that changes nothing of the model and returns cs
Nothing(cs) ==
    /\ Returns(cs)
    /\ UNCHANGED <<phase, screenVars, snapshotVars, filterVars, state, cursor, msg, searchActive,
                   podToDelete, pickerVars, registryVars>>

\* ---------------------------------------------------------- search bar keys
\* textinput.Model.Update on a focused input with the cursor at its end
TextInputUpdate(v, k) ==
    IF k \in RuneKeys THEN (IF Len(v) < CharLimit THEN Append(v, k) ELSE v)
    ELSE IF k = "backspace" /\ v # <<>> THEN SubSeq(v, 1, Len(v) - 1)
    ELSE v

\* the search bar takes the keys while it is open and the program runs
InSearch == phase = "running" /\ searchActive

\* a key arrives for one of the states' switches
InState(states) == phase = "running" /\ ~searchActive /\ state \in states

SearchClose(k) ==
    /\ InSearch
    /\ k \in {"enter", "esc"}
    /\ searchActive' = FALSE
    /\ Returns({})
    /\ UNCHANGED <<phase, screenVars, snapshotVars, filterVars, state, cursor, msg,
                   podToDelete, pickerVars, registryVars>>

SearchType(k) ==
    /\ InSearch
    /\ k \notin {"enter", "esc"}
    /\ k \in RuneKeys => Len(textInput) < MaxTerm
    /\ textInput' = TextInputUpdate(textInput, k)
    /\ filteredPods' \in
           filterPods(pods, namespaces, currentNsIdx, showIssues, textInput', sort)
    /\ Returns({})
    /\ UNCHANGED <<phase, screenVars, pods, namespaces, currentNsIdx, showIssues, sort, state,
                   cursor, msg, searchActive, podToDelete, pickerVars, registryVars>>


\* ------------------------------------------------------------ viewList keys
\* mutant: the switch of viewList is reached while the search bar is open
InList_IgnoresSearch == phase = "running" /\ state = viewList

\* a key reaches the switch of viewList: the search bar is closed
InList == phase = "running" /\ ~searchActive /\ state = viewList

\* m.filteredPods[m.cursor]
Selected == filteredPods[cursor + 1]

\* the index expression m.filteredPods[m.cursor] behind "len(m.filteredPods) > 0"
IndexPanics == Len(filteredPods) > 0 /\ cursor >= Len(filteredPods)

\* index out of range: the run-time panic unwinds Update and ends the program;
\* nothing of the handler has happened
Panic ==
    /\ phase' = "panic"
    /\ cmds' = {}
    /\ UNCHANGED <<screenVars, snapshotVars, filterVars, state, cursor, msg, searchActive,
                   podToDelete, pickerVars, registryVars, inflight, fetchVars, buildVars, mergeVars>>

\* mutant: the loop stops after the first entry
QuitKills_FirstOnly ==
    IF DOMAIN activeForwards = {} THEN {}
    ELSE {activeForwards[CHOOSE key \in DOMAIN activeForwards : TRUE]}

\* the pids the quit loop sends Process.Kill to
QuitKills == {activeForwards[key] : key \in DOMAIN activeForwards}

ListQuit(k) ==
    /\ InList
    /\ k \in {"q", "ctrl+c"}
    /\ procs' = {pr \in procs : pr.pid \notin QuitKills}
    /\ stopAlls' = stopAlls + 1
    /\ phase' = "quit"
    /\ Returns({QuitCmd})
    /\ UNCHANGED <<screenVars, snapshotVars, filterVars, state, cursor, msg, searchActive,
                   podToDelete, pickerVars, activeForwards>>

ListUp(k) ==
    /\ InList
    /\ k \in {"up", "k"}
    /\ cursor' = IF cursor > 0 THEN cursor - 1 ELSE cursor
    /\ Returns({})
    /\ UNCHANGED <<phase, screenVars, snapshotVars, filterVars, state, msg, searchActive,
                   podToDelete, pickerVars, registryVars>>

ListDown(k) ==
    /\ InList
    /\ k \in {"down", "j"}
    /\ cursor' = IF cursor < Len(filteredPods) - 1 THEN cursor + 1 ELSE cursor
    /\ Returns({})
    /\ UNCHANGED <<phase, screenVars, snapshotVars, filterVars, state, msg, searchActive,
                   podToDelete, pickerVars, registryVars>>

\* mutant: the key / opens the search bar from any state
ListSearch_AnyState(k) ==
    /\ phase = "running" /\ ~searchActive
    /\ k = "/"
    /\ searchActive' = TRUE
    /\ Returns({BlinkCmd})
    /\ UNCHANGED <<phase, screenVars, snapshotVars, filterVars, state, cursor, msg,
                   podToDelete, pickerVars, registryVars>>

\* case "/" of viewList
ListSearch(k) ==
    /\ InList
    /\ k = "/"
    /\ searchActive' = TRUE
    /\ Returns({BlinkCmd})
    /\ UNCHANGED <<phase, screenVars, snapshotVars, filterVars, state, cursor, msg,
                   podToDelete, pickerVars, registryVars>>

ListSort(k) ==
    /\ InList
    /\ k \in {"c", "m"}
    /\ sort' = IF k = "c" THEN sortCPU ELSE sortMem
    /\ filteredPods' \in
           filterPods(pods, namespaces, currentNsIdx, showIssues, textInput, sort')
    /\ msg' = IF k = "c" THEN <<"Sort: CPU Usage">> ELSE <<"Sort: Memory Usage">>
    /\ Returns({})
    /\ UNCHANGED <<phase, screenVars, pods, namespaces, currentNsIdx, showIssues, textInput, state,
                   cursor, searchActive, podToDelete, pickerVars, registryVars>>

ListNamespace(k) ==
    /\ InList
    /\ k = "n"
    /\ IF Len(namespaces) > 1
       THEN /\ currentNsIdx' =
                   IF currentNsIdx + 1 >= Len(namespaces) THEN 0 ELSE currentNsIdx + 1
            /\ cursor' = 0
            /\ sort' = sortDefault
            /\ filteredPods' \in
                   filterPods(pods, namespaces, currentNsIdx', showIssues, textInput, sort')
       ELSE UNCHANGED <<currentNsIdx, cursor, sort, filteredPods>>
    /\ Returns({})
    /\ UNCHANGED <<phase, screenVars, pods, namespaces, showIssues, textInput, state, msg,
                   searchActive, podToDelete, pickerVars, registryVars>>

ListTab(k) ==
    /\ InList
    /\ k = "tab"
    /\ showIssues' = ~showIssues
    /\ cursor' = 0
    /\ filteredPods' \in
           filterPods(pods, namespaces, currentNsIdx, showIssues', textInput, sort)
    /\ msg' = IF showIssues' THEN <<"Filter: Issues Only">> ELSE <<"Filter: Showing All">>
    /\ Returns({})
    /\ UNCHANGED <<phase, screenVars, pods, namespaces, currentNsIdx, sort, textInput, state,
                   searchActive, podToDelete, pickerVars, registryVars>>


\* m.initiateAction(pod, action)
\* mutant: the picker is opened for a single container too
NeedsPicker_AtLeastOne(pod) == Len(pod.Containers) >= 1

\* len(pod.Containers) > 1
NeedsPicker(pod) == Len(pod.Containers) > 1

initiateAction(pod, action) ==
    IF NeedsPicker(pod)
    THEN /\ selectedPod' = <<pod>>
         /\ containerList' = pod.Containers
         /\ targetAction' = action
         /\ state' = viewContainerSelect
         /\ containerCursor' = 0
         /\ Returns({})
         /\ UNCHANGED msg
    ELSE LET container == IF Len(pod.Containers) > 0 THEN pod.Containers[1] ELSE ""
         IN  IF action = "logs"
             THEN /\ selectedPod' = <<pod>>
                  /\ state' = viewLogs
                  /\ msg' = <<"Logs: %s", pod.Name>>
                  /\ Returns({FetchLogsCmd(pod, container)})
                  /\ UNCHANGED <<containerList, targetAction, containerCursor>>
             ELSE /\ Returns({OpenShellCmd(pod, container)})
                  /\ UNCHANGED <<pickerVars, state, msg>>

ListAction(k) ==
    /\ InList
    /\ k \in {"enter", "s"}
    /\ IF Len(filteredPods) > 0
       THEN IF IndexPanics
            THEN Panic
            ELSE /\ initiateAction(Selected, IF k = "enter" THEN "logs" ELSE "shell")
                 /\ UNCHANGED <<phase, screenVars, snapshotVars, filterVars, cursor, searchActive,
                                podToDelete, registryVars>>
       ELSE Nothing({})

ListView(k) ==
    /\ InList
    /\ k \in {"?", "y"}
    /\ IF Len(filteredPods) > 0
       THEN IF IndexPanics
            THEN Panic
            ELSE /\ selectedPod' = <<Selected>>
                 /\ state' = IF k = "?" THEN viewDiagnosis ELSE viewYaml
                 /\ msg' = IF k = "?" THEN <<"Diagnosing %s...", Selected.Name>>
                                      ELSE <<"Fetching YAML...">>
                 /\ Returns({IF k = "?" THEN DiagnosePodCmd(Selected)
                                           ELSE FetchYamlCmd(Selected)})
                 /\ UNCHANGED <<phase, screenVars, snapshotVars, filterVars, cursor, searchActive,
                                podToDelete, containerList, containerCursor,
                                targetAction, registryVars>>
       ELSE Nothing({})

\* mutant: the key deletes at once
StageCmds_DeletesAtOnce(pod) == {DeletePodCmd(pod)}

\* what the keys r and d return besides staging the target
StageCmds(pod) == {}

\* mutant: the state changes and no target is stored
Staged_Nothing(pod) == <<>>

\* m.podToDelete = &selected
Staged(pod) == <<pod>>

ListStage(k) ==
    /\ InList
    /\ k \in {"r", "d"}
    /\ IF Len(filteredPods) > 0
       THEN IF IndexPanics
            THEN Panic
            ELSE /\ podToDelete' = Staged(Selected)
                 /\ state' = IF k = "r" THEN viewRestartConfirm ELSE viewDeleteConfirm
                 /\ Returns(StageCmds(Selected))
                 /\ UNCHANGED <<phase, screenVars, snapshotVars, filterVars, cursor, msg, searchActive,
                                pickerVars, registryVars>>
       ELSE Nothing({})

\* mutant: the guard is missing
CleanseRefused_Never(currentNs) == FALSE

\* the guard of the key C
CleanseRefused(currentNs) == currentNs = NsALL

ListCleanse(k) ==
    /\ InList
    /\ k = "C"
    /\ IF CleanseRefused(namespaces[currentNsIdx + 1])
       THEN /\ msg' = <<"Cannot Cleanse 'ALL'. Select a namespace.">>
            /\ UNCHANGED state
       ELSE /\ state' = viewCleanseConfirm
            /\ UNCHANGED msg
    /\ Returns({})
    /\ UNCHANGED <<phase, screenVars, snapshotVars, filterVars, cursor, searchActive, podToDelete,
                   pickerVars, registryVars>>

\* a pid no live child has
FreshPid == CHOOSE n \in 1..(Cardinality(procs) + 1) : \A pr \in procs : pr.pid # n

\* mutant: the lookup is skipped and the forward always started
ForwardExists_Never(key) == FALSE

\* m.activeForwards[key]: the "exists" of the comma-ok lookup
ForwardExists(key) == key \in DOMAIN activeForwards

\* mutant: the handle is stored although Start returned an error
FailedStart_StoresHandle(key) ==
    [x \in DOMAIN activeForwards \cup {key} |->
        IF x = key THEN 0 ELSE activeForwards[x]]

\* the registry after c.Start() has returned an error: nothing is stored
FailedStart(key) == activeForwards

ListForward(k) ==
    /\ InList
    /\ k = "f"
    /\ IF Len(filteredPods) > 0
       THEN IF IndexPanics
            THEN Panic
            ELSE LET key == PodKey(Selected)
                     targetPort == IF Selected.Port = 0 THEN DefaultPort ELSE Selected.Port
                 IN  /\ IF ForwardExists(key)
                        THEN /\ procs' = {pr \in procs : pr.pid # activeForwards[key]}
                             /\ activeForwards' =
                                    [x \in DOMAIN activeForwards \ {key} |-> activeForwards[x]]
                             /\ msg' = <<"Stopped forwarding %s", Selected.Name>>
                        ELSE \/ /\ Cardinality(procs) < MaxProcs
                                /\ procs' = procs \cup
                                       {[pid |-> FreshPid, key |-> key, port |-> targetPort]}
                                /\ activeForwards' =
                                       [x \in DOMAIN activeForwards \cup {key} |->
                                           IF x = key THEN FreshPid ELSE activeForwards[x]]
                                /\ msg' = <<"Forwarding %s -> :8080", Selected.Name>>
                             \/ /\ msg' = <<"Forward fail: %v">>
                                /\ activeForwards' = FailedStart(key)
                                /\ UNCHANGED procs
                     /\ Returns({})
                     /\ UNCHANGED <<phase, screenVars, snapshotVars, filterVars, state, cursor,
                                    searchActive, podToDelete, pickerVars, stopAlls>>
       ELSE Nothing({})

ListKeys ==
    {"q", "ctrl+c", "up", "k", "down", "j", "/", "c", "m", "n", "tab", "enter", "s",
     "?", "y", "r", "d", "C", "f"}

\* a key the switch of viewList has no case for
ListOther(k) ==
    /\ InList
    /\ k \notin ListKeys
    /\ Nothing({})


\* ------------------------------------------------- viewContainerSelect keys
PickerKey(k) ==
    /\ InState({viewContainerSelect})
    /\ CASE k \in {"esc", "q"} ->
              /\ state' = viewList
              /\ msg' = <<"Cancelled">>
              /\ Returns({})
              /\ UNCHANGED pickerVars
         [] k \in {"up", "k"} ->
              /\ containerCursor' =
                     IF containerCursor > 0 THEN containerCursor - 1 ELSE containerCursor
              /\ Returns({})
              /\ UNCHANGED <<state, msg, selectedPod, containerList, targetAction>>
         [] k \in {"down", "j"} ->
              /\ containerCursor' =
                     IF containerCursor < Len(containerList) - 1
                     THEN containerCursor + 1 ELSE containerCursor
              /\ Returns({})
              /\ UNCHANGED <<state, msg, selectedPod, containerList, targetAction>>
         [] k = "enter" ->
              LET container == containerList[containerCursor + 1]
              IN  /\ IF targetAction = "logs"
                     THEN /\ state' = viewLogs
                          /\ Returns({FetchLogsCmd(selectedPod[1], container)})
                     ELSE IF targetAction = "shell"
                     THEN /\ state' = viewList
                          /\ Returns({OpenShellCmd(selectedPod[1], container)})
                     ELSE /\ state' = viewList
                          /\ Returns({})
                  /\ UNCHANGED <<msg, pickerVars>>
         [] OTHER ->
              /\ Returns({})
              /\ UNCHANGED <<state, msg, pickerVars>>
    /\ UNCHANGED <<phase, screenVars, snapshotVars, filterVars, cursor, searchActive, podToDelete,
                   registryVars>>

\* ------------------------------------------------------ confirm-state keys
\* the command the affirmative key of viewCleanseConfirm returns
CleanseCmds == {CleanseNamespaceCmd(namespaces[currentNsIdx + 1])}

CleanseConfirmKey(k) ==
    /\ InState({viewCleanseConfirm})
    /\ CASE k \in AffirmKeys ->
              /\ state' = viewList
              /\ Returns(CleanseCmds)
              /\ UNCHANGED msg
         [] k \in NegativeKeys ->
              /\ state' = viewList
              /\ msg' = <<"Cleanse cancelled.">>
              /\ Returns({})
         [] OTHER ->
              /\ Returns({})
              /\ UNCHANGED <<state, msg>>
    /\ UNCHANGED <<phase, screenVars, snapshotVars, filterVars, cursor, searchActive, podToDelete,
                   pickerVars, registryVars>>

\* mutant: the affirmative key acts on the row under the cursor
AffirmCmds_UnderCursor(target) ==
    IF cursor < Len(filteredPods) THEN {DeletePodCmd(filteredPods[cursor + 1])} ELSE {}

\* the command the affirmative key of viewRestartConfirm and viewDeleteConfirm returns
AffirmCmds(target) == {DeletePodCmd(target)}

\* viewRestartConfirm and viewDeleteConfirm: the two cases differ in the text only
TargetConfirmKey(k) ==
    /\ InState({viewRestartConfirm, viewDeleteConfirm})
    /\ CASE k \in AffirmKeys ->
              /\ msg' = IF state = viewRestartConfirm
                        THEN <<"Restarting %s...", podToDelete[1].Name>>
                        ELSE <<"Deleting %s...", podToDelete[1].Name>>
              /\ podToDelete' = <<>>
              /\ state' = viewList
              /\ Returns(AffirmCmds(podToDelete[1]))
         [] k \in NegativeKeys ->
              /\ podToDelete' = <<>>
              /\ state' = viewList
              /\ msg' = IF state = viewRestartConfirm
                        THEN <<"Restart cancelled.">> ELSE <<"Delete cancelled.">>
              /\ Returns({})
         [] OTHER ->
              /\ Returns({})
              /\ UNCHANGED <<state, msg, podToDelete>>
    /\ UNCHANGED <<phase, screenVars, snapshotVars, filterVars, cursor, searchActive, pickerVars,
                   registryVars>>

\* ------------------------------------- viewLogs, viewDiagnosis, viewYaml keys
\* mutant: q is forwarded to the viewport like any other key
OverlayCloseKeys_EscOnly == {"esc"}

\* case "esc", "q" of the overlays
OverlayCloseKeys == {"esc", "q"}

OverlayKey(k) ==
    /\ InState({viewLogs, viewDiagnosis, viewYaml})
    /\ IF k \in OverlayCloseKeys
       THEN /\ state' = viewList
            /\ msg' = <<"Dashboard">>
       ELSE UNCHANGED <<state, msg>>   \* the key scrolls the viewport
    /\ Returns({})
    /\ UNCHANGED <<phase, screenVars, snapshotVars, filterVars, cursor, searchActive, podToDelete,
                   pickerVars, registryVars>>

\* Update(tea.KeyMsg)
KeyMsg(k) ==
    \/ SearchClose(k)
    \/ SearchType(k)
    \/ ListQuit(k)
    \/ ListUp(k)
    \/ ListDown(k)
    \/ ListSearch(k)
    \/ ListSort(k)
    \/ ListNamespace(k)
    \/ ListTab(k)
    \/ ListAction(k)
    \/ ListView(k)
    \/ ListStage(k)
    \/ ListCleanse(k)
    \/ ListForward(k)
    \/ ListOther(k)
    \/ PickerKey(k)
    \/ CleanseConfirmKey(k)
    \/ TargetConfirmKey(k)
    \/ OverlayKey(k)


\* -------------------------------------------------------- result messages
\* the cursor clamp of the podsMsg case
ClampCursor(c, n) ==
    IF c >= n THEN (IF n > 0 THEN n - 1 ELSE 0) ELSE c

\* mutant: the tick starts the fetches and arms no successor
TickCmds_NoSuccessor == {FetchPodsCmd, FetchClusterStatsCmd}

\* what Update(tickMsg) returns
TickCmds == {FetchPodsCmd, FetchClusterStatsCmd, TickCmd}

\* the timer armed by tick has fired and produced tickMsg; Update(tickMsg)
TickMsg ==
    /\ Completes(TickCmd)
    /\ cmds' = TickCmds
    /\ Room(TickCmds)
    /\ inflight' = (inflight (-) SetToBag({TickCmd}))
                       (+) SetToBag({c \in TickCmds : IsTracked(c)})
    /\ overtaken' = Started(overtaken, TickCmds)
    /\ UNCHANGED <<follow, lastStale, buildVars, mergeVars>>
    /\ UNCHANGED <<phase, screenVars, snapshotVars, filterVars, state, cursor, msg, searchActive,
                   podToDelete, pickerVars, registryVars>>

\* mutant: the result is added to the snapshot held
PodsApplied_Appends(list) == pods \o list

\* m.pods = msg
PodsApplied(list) == list

\* fetchPods listed the pods and produced podsMsg(list); Update(podsMsg)
PodsMsg(list) ==
    /\ Completes(FetchPodsCmd)
    /\ pods' = PodsApplied(list)
    /\ filteredPods' \in
           filterPods(pods', namespaces, currentNsIdx, showIssues, textInput, sort)
    /\ cursor' = ClampCursor(cursor, Len(filteredPods'))
    /\ Applied(FetchPodsCmd)
    /\ UNCHANGED <<phase, screenVars, filterVars, state, msg, searchActive, podToDelete,
                   pickerVars, registryVars>>

\* a command returned nil (the list call failed): bubbletea delivers nothing
ReturnsNil(c) ==
    /\ Completes(c)
    /\ c \in {FetchPodsCmd, FetchNamespacesCmd}
    /\ inflight' = inflight (-) SetToBag({c})
    /\ \E i \in 1..Len(overtaken[c[1]]) : overtaken' = Leaves(c[1], i, FALSE)
    /\ UNCHANGED <<follow, lastStale, buildVars, mergeVars>>
    /\ UNCHANGED <<phase, screenVars, snapshotVars, filterVars, state, cursor, msg, searchActive,
                   podToDelete, pickerVars, registryVars, cmds>>

\* mutant: the result replaces the list as it is
NsApplied_Bare(n) == n

\* append([]string{"ALL"}, msg...)
NsApplied(n) == <<NsALL>> \o n

\* fetchNamespaces produced nsMsg(n); Update(nsMsg)
NsMsg(n) ==
    /\ Completes(FetchNamespacesCmd)
    /\ namespaces' = NsApplied(n)
    /\ Applied(FetchNamespacesCmd)
    /\ UNCHANGED <<phase, screenVars, snapshotVars, currentNsIdx, showIssues, sort, textInput, state,
                   cursor, msg, searchActive, podToDelete, pickerVars, registryVars>>

\* what fetchClusterStats can produce: a summary, or ClusterStats{} when the
\* node list fails
StatsMsgs == StatsResults \cup {NoStats}

\* fetchClusterStats produced statsMsg(st); Update(statsMsg)
StatsMsg(st) ==
    /\ Completes(FetchClusterStatsCmd)
    /\ clusterStats' = st
    /\ Applied(FetchClusterStatsCmd)
    /\ UNCHANGED <<phase, height, viewport, snapshotVars, filterVars, state, cursor, msg,
                   searchActive, podToDelete, pickerVars, registryVars>>

\* the terminal heights the window takes
Heights == {0, 13, 14}

\* Update(tea.WindowSizeMsg)
WindowSizeMsg(h) ==
    /\ phase = "running"
    /\ height' = h
    /\ viewport' = <<>>    \* viewport.New: a viewport without content
    /\ Returns({})
    /\ UNCHANGED <<phase, clusterStats, snapshotVars, filterVars, state, cursor, msg,
                   searchActive, podToDelete, pickerVars, registryVars>>

\* the viewport capacity calculatePagination derives from the terminal height
perPage(h) == IF h - ChromeRows <= 0 THEN FallbackPerPage ELSE h - ChromeRows

\* model.calculatePagination: <<start, end>>
calculatePagination(h, cur, n) ==
    IF n > perPage(h)
    THEN IF cur < perPage(h) THEN <<0, perPage(h)>>
         ELSE <<cur - perPage(h) + 1, cur + 1>>
    ELSE <<0, n>>

\* a one-shot fetch has answered and Update has put its result into the viewport,
\* whatever the session state and the selected pod are; m.logContent,
\* m.diagContent and m.yamlContent hold a copy that nothing reads
Shows(c) ==
    /\ Completes(c)
    /\ viewport' = <<c>>
    /\ cmds' = {}
    /\ inflight' = inflight (-) SetToBag({c})
    /\ UNCHANGED <<follow, overtaken, lastStale, buildVars, mergeVars>>
    /\ UNCHANGED <<phase, clusterStats, height, snapshotVars, filterVars, state, cursor, msg,
                   searchActive, podToDelete, pickerVars, registryVars>>

\* fetchLogs produced logsMsg; Update(logsMsg)
LogsMsg(c) == c[1] = "fetchLogs" /\ Shows(c)

\* diagnosePod produced diagMsg; Update(diagMsg)
DiagMsg(c) == c[1] = "diagnosePod" /\ Shows(c)

\* fetchYaml produced yamlMsg; Update(yamlMsg)
YamlMsg(c) == c[1] = "fetchYaml" /\ Shows(c)

\* the text deletePod and cleanseNamespace produce when the cluster has accepted
\* (ok) or rejected the call: deletePod drops the error of Delete
DeleteResult(c, ok) ==
    IF c[1] = "deletePod" THEN <<"Pod deleted.">>
    ELSE IF ok THEN <<"ALL PODS IN '%s' HAVE BEEN DELETED.", c[2]>>
    ELSE <<"Cleanse failed: %v">>

\* the texts deletePod and cleanseNamespace can produce
DeleteTexts(c) ==
    IF IsDestructive(c) THEN {DeleteResult(c, ok) : ok \in BOOLEAN} ELSE {}

\* mutant: the result is shown and no refresh follows
DeleteMsgCmds_NoRefresh == {}

\* what Update(deleteMsg) returns
DeleteMsgCmds == {FetchPodsCmd}

\* a destructive command produced deleteMsg(text); Update(deleteMsg)
DeleteMsg(c, text) ==
    /\ Completes(c)
    /\ IsDestructive(c)
    /\ text \in DeleteTexts(c)
    /\ msg' = text
    /\ cmds' = DeleteMsgCmds
    /\ Room(DeleteMsgCmds)
    /\ inflight' = (inflight (-) SetToBag({c})) (+) SetToBag(DeleteMsgCmds)
    /\ overtaken' = Started(overtaken, DeleteMsgCmds)
    /\ UNCHANGED <<follow, lastStale, buildVars, mergeVars>>
    /\ UNCHANGED <<phase, screenVars, snapshotVars, filterVars, state, cursor, searchActive,
                   podToDelete, pickerVars, registryVars>>

\* ------------------------------------------------------------ environment
\* The whole program: any key at any time.
Next ==
    \/ \E k \in Keys : KeyMsg(k)
    \/ TickMsg
    \/ \E list \in Snapshots : PodsMsg(list)
    \/ \E n \in NamespaceLists : NsMsg(n)
    \/ \E st \in StatsMsgs : StatsMsg(st)
    \/ \E h \in Heights : WindowSizeMsg(h)
    \/ \E c \in BagToSet(inflight) : ReturnsNil(c)
    \/ \E c \in BagToSet(inflight) : \E text \in DeleteTexts(c) : DeleteMsg(c, text)
    \/ \E c \in BagToSet(inflight) : LogsMsg(c)
    \/ \E c \in BagToSet(inflight) : DiagMsg(c)
    \/ \E c \in BagToSet(inflight) : YamlMsg(c)

Spec == Init /\ [][Next]_vars

\* The specifications below run the same handlers under an operator who keeps to
\* the keys of one concern, so that each is small enough to explore completely.

\* the letters the operator types into the search bar, and the other keys used there
TypedKeys == {"q", "C", "backspace", "enter", "esc"}

\* -- browsing: cursor, namespace, issues-only, sort, search, refresh
BrowseKeys == {"up", "down", "/", "c", "m", "n", "tab"}

NextBrowse ==
    \/ \E k \in TypedKeys : SearchClose(k)
    \/ \E k \in TypedKeys : SearchType(k)
    \/ \E k \in BrowseKeys : ListUp(k)
    \/ \E k \in BrowseKeys : ListDown(k)
    \/ \E k \in BrowseKeys : ListSearch(k)
    \/ \E k \in BrowseKeys : ListSort(k)
    \/ \E k \in BrowseKeys : ListNamespace(k)
    \/ \E k \in BrowseKeys : ListTab(k)
    \/ TickMsg
    \/ \E list \in Snapshots : PodsMsg(list)
    \/ \E n \in NamespaceLists : NsMsg(n)
    \/ \E c \in BagToSet(inflight) : ReturnsNil(c)

SpecBrowse == Init /\ [][NextBrowse]_vars

\* -- destructive actions: staging, confirming, cancelling, their results
ConfirmKeys == {"down", "n", "r", "d", "C", "y", "N", "esc", "q"}

NextConfirm ==
    \/ \E k \in ConfirmKeys : ListDown(k)
    \/ \E k \in ConfirmKeys : ListNamespace(k)
    \/ \E k \in ConfirmKeys : ListStage(k)
    \/ \E k \in ConfirmKeys : ListCleanse(k)
    \/ \E k \in ConfirmKeys : ListOther(k)
    \/ \E k \in ConfirmKeys : CleanseConfirmKey(k)
    \/ \E k \in ConfirmKeys : TargetConfirmKey(k)
    \/ TickMsg
    \/ \E list \in Snapshots : PodsMsg(list)
    \/ \E n \in NamespaceLists : NsMsg(n)
    \/ \E c \in BagToSet(inflight) : ReturnsNil(c)
    \/ \E c \in BagToSet(inflight) : \E text \in DeleteTexts(c) : DeleteMsg(c, text)

SpecConfirm == Init /\ [][NextConfirm]_vars

\* -- port-forwards: toggling, quitting, and the keys that can end the program
RegistryKeys == {"down", "f", "/", "q", "ctrl+c", "esc"}

NextRegistry ==
    \/ \E k \in TypedKeys : SearchClose(k)
    \/ \E k \in TypedKeys : SearchType(k)
    \/ \E k \in RegistryKeys : ListQuit(k)
    \/ \E k \in RegistryKeys : ListDown(k)
    \/ \E k \in RegistryKeys : ListSearch(k)
    \/ \E k \in RegistryKeys : ListForward(k)
    \/ \E k \in RegistryKeys : ListOther(k)
    \/ TickMsg
    \/ \E list \in Snapshots : PodsMsg(list)
    \/ \E c \in BagToSet(inflight) : ReturnsNil(c)

SpecRegistry == Init /\ [][NextRegistry]_vars

\* -- logs and shell: container picker, overlays
PickerKeys == {"up", "down", "enter", "s", "esc", "q", "ctrl+c"}

NextPicker ==
    \/ \E k \in PickerKeys : ListQuit(k)
    \/ \E k \in PickerKeys : ListUp(k)
    \/ \E k \in PickerKeys : ListDown(k)
    \/ \E k \in PickerKeys : ListAction(k)
    \/ \E k \in PickerKeys : PickerKey(k)
    \/ \E k \in PickerKeys : OverlayKey(k)
    \/ TickMsg
    \/ \E list \in Snapshots : PodsMsg(list)
    \/ \E c \in BagToSet(inflight) : ReturnsNil(c)

SpecPicker == Init /\ [][NextPicker]_vars


\* -- refresh: the three fetches, MaxFetches of a kind at a time, and their results
InitFetch ==
    /\ Started0([kind \in FetchKinds |-> [cap |-> MaxFetches, ordered |-> TRUE]], "any")
    /\ Unstudied

FetchKeys == {"down", "N"}

NextFetch ==
    \/ \E k \in FetchKeys : ListDown(k)
    \/ TickMsg
    \/ \E list \in Snapshots : PodsMsg(list)
    \/ \E st \in StatsMsgs : StatsMsg(st)
    \/ \E n \in NamespaceLists : NsMsg(n)
    \/ \E c \in BagToSet(inflight) : ReturnsNil(c)

SpecFetch == InitFetch /\ [][NextFetch]_vars

\* -- search bar: the operator types letters that are list keys too
SearchKeys == {"q", "d", "n", "down", "/", "backspace", "enter", "esc"}

NextSearch ==
    \/ \E k \in SearchKeys : SearchClose(k)
    \/ \E k \in SearchKeys : SearchType(k)
    \/ \E k \in SearchKeys : ListQuit(k)
    \/ \E k \in SearchKeys : ListDown(k)
    \/ \E k \in SearchKeys : ListSearch(k)
    \/ \E k \in SearchKeys : ListNamespace(k)
    \/ \E k \in SearchKeys : ListStage(k)
    \/ \E k \in SearchKeys : ListOther(k)
    \/ \E k \in SearchKeys : TargetConfirmKey(k)
    \/ TickMsg
    \/ \E list \in Snapshots : PodsMsg(list)
    \/ \E c \in BagToSet(inflight) : ReturnsNil(c)

SpecSearch == Init /\ [][NextSearch]_vars

\* -- pagination: cursor, search, window size
PageKeys == {"up", "down", "/"}

NextPage ==
    \/ \E k \in TypedKeys : SearchClose(k)
    \/ \E k \in TypedKeys : SearchType(k)
    \/ \E k \in PageKeys : ListUp(k)
    \/ \E k \in PageKeys : ListDown(k)
    \/ \E k \in PageKeys : ListSearch(k)
    \/ \E h \in Heights : WindowSizeMsg(h)
    \/ TickMsg
    \/ \E list \in Snapshots : PodsMsg(list)
    \/ \E c \in BagToSet(inflight) : ReturnsNil(c)

SpecPage == Init /\ [][NextPage]_vars

\* -- sorting: the sort keys, namespace and issues-only under a build whose
\* sort.Slice is a function of its input
InitSort == Unstudied /\ \E ties \in {"kept", "reversed"} : Started0(Followed, ties)

SortKeys == {"c", "m", "n", "tab", "down"}

NextSort ==
    \/ \E k \in SortKeys : ListDown(k)
    \/ \E k \in SortKeys : ListSort(k)
    \/ \E k \in SortKeys : ListNamespace(k)
    \/ \E k \in SortKeys : ListTab(k)
    \/ TickMsg
    \/ \E list \in Snapshots : PodsMsg(list)
    \/ \E n \in NamespaceLists : NsMsg(n)
    \/ \E c \in BagToSet(inflight) : ReturnsNil(c)

SpecSort == InitSort /\ [][NextSort]_vars

\* -- the merge of fetchPods on one pod, and the issues-only filter on its result
InitMerge ==
    /\ Started0(Followed, "any")
    /\ \E p \in ApiPods : pList = <<p>>
    /\ mList \in MetricLists
    /\ merged = <<>>

\* the function returned by fetchPods runs: both list calls answer
FetchPodsRuns ==
    /\ phase = "running"
    /\ merged = <<>>
    /\ merged' = <<MergedList(pList, mList)>>
    /\ UNCHANGED <<phase, screenVars, snapshotVars, filterVars, state, cursor, msg,
                   searchActive, podToDelete, pickerVars, registryVars, inflight, cmds,
                   fetchVars, buildVars, pList, mList>>

MergeKeys == {"tab"}

NextMerge ==
    \/ FetchPodsRuns
    \/ \E list \in {fetchPods(pList, mList)} : merged # <<>> /\ PodsMsg(list)
    \/ \E k \in MergeKeys : ListTab(k)
    \/ \E c \in BagToSet(inflight) : ReturnsNil(c)

SpecMerge == InitMerge /\ [][NextMerge]_vars


\* -- a staged target under every kind of result: the three fetches are followed,
\* the cluster summary and the namespace list one at a time
InitStaged ==
    /\ Started0([kind \in FetchKinds |->
                    [cap |-> IF kind = "fetchPods" THEN MaxInflight ELSE 1,
                     ordered |-> FALSE]], "any")
    /\ Unstudied

StagedKeys == {"down", "r", "d", "Y", "N"}

NextStaged ==
    \/ \E k \in StagedKeys : ListDown(k)
    \/ \E k \in StagedKeys : ListStage(k)
    \/ \E k \in StagedKeys : ListOther(k)
    \/ \E k \in StagedKeys : TargetConfirmKey(k)
    \/ TickMsg
    \/ \E list \in Snapshots : PodsMsg(list)
    \/ \E st \in StatsMsgs : StatsMsg(st)
    \/ \E n \in NamespaceLists : NsMsg(n)
    \/ \E c \in BagToSet(inflight) : ReturnsNil(c)
    \/ \E c \in BagToSet(inflight) : \E text \in DeleteTexts(c) : DeleteMsg(c, text)

SpecStaged == InitStaged /\ [][NextStaged]_vars


\* -- search bar against the other states: the keys that open an overlay or a
\* confirm state are letters of a search term too
ModeKeys == {"/", "?", "d", "down", "esc"}

NextModes ==
    \/ \E k \in ModeKeys : SearchClose(k)
    \/ \E k \in ModeKeys : SearchType(k)
    \/ \E k \in ModeKeys : ListDown(k)
    \/ \E k \in ModeKeys : ListSearch(k)
    \/ \E k \in ModeKeys : ListView(k)
    \/ \E k \in ModeKeys : ListStage(k)
    \/ \E k \in ModeKeys : ListOther(k)
    \/ \E k \in ModeKeys : TargetConfirmKey(k)
    \/ \E k \in ModeKeys : OverlayKey(k)
    \/ TickMsg
    \/ \E list \in Snapshots : PodsMsg(list)
    \/ \E c \in BagToSet(inflight) : ReturnsNil(c)

SpecModes == Init /\ [][NextModes]_vars


\* -- the refresh timer in the list, the search bar, the picker, an overlay and a
\* confirm state: the keys that lead there and back; the timer fires three
\* seconds after it was armed whatever else happens, and every workload fetch
\* ends, with the list of the pods of the cluster or with an error
TimerKeys == {"/", "y", "d", "enter", "esc"}

NextTimer ==
    \/ \E k \in TimerKeys : SearchClose(k)
    \/ \E k \in TimerKeys : SearchType(k)
    \/ \E k \in TimerKeys : ListSearch(k)
    \/ \E k \in TimerKeys : ListAction(k)
    \/ \E k \in TimerKeys : ListView(k)
    \/ \E k \in TimerKeys : ListStage(k)
    \/ \E k \in TimerKeys : ListOther(k)
    \/ \E k \in TimerKeys : PickerKey(k)
    \/ \E k \in TimerKeys : TargetConfirmKey(k)
    \/ \E k \in TimerKeys : OverlayKey(k)
    \/ TickMsg
    \/ PodsMsg(ClusterPods)
    \/ \E c \in BagToSet(inflight) : ReturnsNil(c)
    \/ \E c \in BagToSet(inflight) : \E text \in DeleteTexts(c) : DeleteMsg(c, text)

FetchPodsEnds == PodsMsg(ClusterPods) \/ ReturnsNil(FetchPodsCmd)

SpecTimer ==
    /\ Init
    /\ [][NextTimer]_vars
    /\ SF_vars(TickMsg)
    /\ WF_vars(FetchPodsEnds)


\* -- overlays: the one-shot fetches are followed, MaxInflight of a kind at a
\* time, and answer in any order; the workload fetch answers with the list of
\* the pods of the cluster or with an error
InitOverlay ==
    /\ Started0([kind \in FetchKinds \cup OneShotKinds |->
                    [cap |-> IF kind \in OneShotKinds THEN MaxInflight
                             ELSE IF kind = "fetchPods" THEN MaxInflight ELSE 0,
                     ordered |-> FALSE]], "any")
    /\ Unstudied

OverlayKeys == {"down", "?", "y", "enter", "esc"}

NextOverlay ==
    \/ \E k \in OverlayKeys : ListDown(k)
    \/ \E k \in OverlayKeys : ListAction(k)
    \/ \E k \in OverlayKeys : ListView(k)
    \/ \E k \in OverlayKeys : ListOther(k)
    \/ \E k \in OverlayKeys : PickerKey(k)
    \/ \E k \in OverlayKeys : OverlayKey(k)
    \/ TickMsg
    \/ PodsMsg(ClusterPods)
    \/ \E c \in BagToSet(inflight) : ReturnsNil(c)
    \/ \E c \in BagToSet(inflight) : LogsMsg(c)
    \/ \E c \in BagToSet(inflight) : DiagMsg(c)
    \/ \E c \in BagToSet(inflight) : YamlMsg(c)

SpecOverlay == InitOverlay /\ [][NextOverlay]_vars


\* ================================================================== claims
PodsOf(list) == {list[i] : i \in 1..Len(list)}
SelectedNs == namespaces[currentNsIdx + 1]

\* C1: in every reachable state the cursor is a valid index into the filtered
\* view (0 <= cursor < length), or is 0 when the filtered view is empty.
C1_CursorInView ==
    IF Len(filteredPods) = 0 THEN cursor = 0
    ELSE 0 <= cursor /\ cursor < Len(filteredPods)

\* C2: in every reachable state the filtered view holds exactly the records of
\* the latest snapshot that satisfy the namespace selection, the issues-only
\* toggle and the case-insensitive search term all at once, each once.
C2_ViewIsFilteredSnapshot ==
    LET Wanted(p) ==
            /\ SelectedNs = NsALL \/ p.Namespace = SelectedNs
            /\ showIssues =>
                   ~(p.Status \in {"Running", "Succeeded"} /\ p.Restarts = 0 /\ p.IsReady)
            /\ \E i \in 0..Len(p.Name) : \E j \in i..Len(p.Name) :
                   ToLower(SubSeq(p.Name, i + 1, j)) = ToLower(textInput)
    IN  /\ PodsOf(filteredPods) = {p \in PodsOf(pods) : Wanted(p)}
        /\ Cardinality(PodsOf(filteredPods)) = Len(filteredPods)

\* C2 witness: all three predicates are active, each drops a record of the
\* snapshot, and one record passes them all.
C2_Witness ==
    /\ SelectedNs # NsALL
    /\ showIssues
    /\ textInput # <<>>
    /\ Len(pods) = 3
    /\ Len(filteredPods) = 1

\* C3: with issues-only set, a workload that passes the namespace and search
\* predicates is in the filtered view iff NOT (phase Running or Succeeded AND
\* restarts = 0 AND fully ready); with issues-only unset every such workload is
\* in the view.
C3_IssuesOnly ==
    \A p \in PodsOf(pods) :
        (/\ SelectedNs = NsALL \/ p.Namespace = SelectedNs
         /\ textInput = <<>> \/ Contains(ToLower(p.Name), ToLower(textInput)))
        => ((p \in PodsOf(filteredPods)) <=>
               (showIssues =>
                   ~((p.Status = "Running" \/ p.Status = "Succeeded")
                      /\ p.Restarts = 0 /\ p.IsReady)))

\* C3 witness: issues-only is set, a healthy workload of the snapshot has been
\* dropped and an abnormal one kept.
C3_Witness ==
    /\ showIssues
    /\ SelectedNs = NsALL
    /\ textInput = <<>>
    /\ \E p \in PodsOf(pods) : p \notin PodsOf(filteredPods)
    /\ \E p \in PodsOf(filteredPods) : p.Status = "Running" /\ p.Restarts > 0


\* command c was started in this step / completed in this step
Dispatched(c) == CopiesIn(c, inflight') > CopiesIn(c, inflight)
Completed(c) == CopiesIn(c, inflight') < CopiesIn(c, inflight)
DestructiveCmds ==
    {<<"deletePod", p.Namespace, p.Name>> : p \in {ApiPodA, ApiPodB, ApiPodC}}
        \cup {<<"cleanseNamespace", ns>> : ns \in {NsALL, <<"d">>, <<"p">>}}

\* C4: a destructive command (single delete, delete-as-restart, bulk delete) is
\* started only by a step that handles y or Y in the matching confirm state;
\* the keys r and d in the list only stage the record under the cursor and
\* enter the confirm state, starting nothing.
C4_DestructiveOnlyOnAffirm ==
    [][/\ \A c \in DestructiveCmds :
              Dispatched(c) =>
                  /\ ~searchActive
                  /\ c[1] = "deletePod" =>
                         /\ state \in {viewDeleteConfirm, viewRestartConfirm}
                         /\ \E k \in {"y", "Y"} : TargetConfirmKey(k)
                  /\ c[1] = "cleanseNamespace" =>
                         /\ state = viewCleanseConfirm
                         /\ \E k \in {"y", "Y"} : CleanseConfirmKey(k)
       /\ \A k \in {"r", "d"} :
              (ListStage(k) /\ Len(filteredPods) > 0) =>
                  /\ podToDelete' = <<filteredPods[cursor + 1]>>
                  /\ state' = (IF k = "r" THEN viewRestartConfirm ELSE viewDeleteConfirm)
                  /\ cmds' = {}
                  /\ inflight' = inflight
      ]_vars

\* C4 witness: a delete confirmed earlier is running while the next target is
\* staged and waits for its confirmation.
C4_Witness ==
    /\ state = viewDeleteConfirm
    /\ podToDelete # <<>>
    /\ \E c \in BagToSet(inflight) : c[1] = "deletePod"


CleanseWarning == <<"Cannot Cleanse 'ALL'. Select a namespace.">>

\* C5: with "ALL" selected the key C is refused (the session stays in the list,
\* the warning is put in the status line, nothing is started), and the bulk
\* delete is never started or returned for "ALL", nor is the cleanse
\* confirmation ever open on "ALL".
C5_CleanseRefusedOnAll ==
    /\ [](/\ <<"cleanseNamespace", NsALL>> \notin cmds
          /\ ~BagIn(<<"cleanseNamespace", NsALL>>, inflight)
          /\ state = viewCleanseConfirm => SelectedNs # NsALL)
    /\ [][(ListCleanse("C") /\ SelectedNs = NsALL) =>
              /\ state' = viewList
              /\ msg' = CleanseWarning
              /\ cmds' = {}
              /\ inflight' = inflight
         ]_vars

\* C5 witness: the warning is in the status line after the namespace list has
\* arrived and the operator has come back round to "ALL".
C5_Witness ==
    /\ msg = CleanseWarning
    /\ state = viewList
    /\ Len(namespaces) > 1
    /\ SelectedNs = NsALL

\* the step handles y or Y in a confirm state
AffirmStep ==
    \E k \in {"y", "Y"} : TargetConfirmKey(k) \/ CleanseConfirmKey(k)

\* the one command the affirmative key is to start, from the state before it
StagedCmd ==
    IF state = viewCleanseConfirm THEN <<"cleanseNamespace", SelectedNs>>
    ELSE <<"deletePod", podToDelete[1].Namespace, podToDelete[1].Name>>

\* C6 as claimed: the affirmative key returns the session to the list, starts
\* the destructive action for the staged target, and re-triggers the workload
\* refresh as part of handling that key.
C6_RefreshWithAffirm ==
    [][AffirmStep =>
           /\ state' = viewList
           /\ StagedCmd \in cmds'
           /\ Dispatched(StagedCmd)
           /\ <<"fetchPods">> \in cmds'
      ]_vars

\* C6 amended: the affirmative key returns the session to the list and starts
\* exactly the destructive action for the staged target and nothing else; the
\* workload refresh is started by the step that handles that action's result.
C6_RefreshOnResult ==
    [][/\ AffirmStep =>
              /\ state' = viewList
              /\ cmds' = {StagedCmd}
              /\ Dispatched(StagedCmd)
              /\ \A c \in BagToSet(inflight') : c # StagedCmd => ~Dispatched(c)
       /\ \A c \in DestructiveCmds :
              Completed(c) =>
                  /\ cmds' = {<<"fetchPods">>}
                  /\ Dispatched(<<"fetchPods">>)
      ]_vars

\* C6 witness: the result of a confirmed delete or restart has been handled and
\* the refresh it started is running.
C6_Witness ==
    /\ msg = <<"Pod deleted.">>
    /\ cmds = {<<"fetchPods">>}
    /\ BagIn(<<"fetchPods">>, inflight)
    /\ state = viewList

\* C7: n, N, esc or q in a confirm state returns the session to the list,
\* discards the staged target, starts and returns nothing, and leaves the
\* snapshot, the view, the filter configuration, the cursor and the registry
\* as they were; a key that is neither affirmative nor negative leaves the
\* confirm state and the staged target as they were.
C7_CancelHasNoEffect ==
    [][(state \in {viewDeleteConfirm, viewRestartConfirm, viewCleanseConfirm}) =>
           \A k \in ConfirmKeys :
               (TargetConfirmKey(k) \/ CleanseConfirmKey(k)) =>
                   /\ k \in {"n", "N", "esc", "q"} =>
                          /\ state' = viewList
                          /\ podToDelete' = <<>>
                          /\ cmds' = {}
                          /\ inflight' = inflight
                          /\ UNCHANGED <<pods, filteredPods, namespaces, currentNsIdx,
                                         showIssues, sort, textInput, cursor,
                                         activeForwards, procs>>
                   /\ k \notin {"y", "Y", "n", "N", "esc", "q"} =>
                          /\ UNCHANGED <<state, podToDelete>>
                          /\ inflight' = inflight
      ]_vars

\* C7 witness: a staged delete has been cancelled with the cursor off the
\* first row.
C7_Witness ==
    /\ msg = <<"Delete cancelled.">>
    /\ state = viewList
    /\ podToDelete = <<>>
    /\ cursor > 0


LivePids == {pr.pid : pr \in procs}
ForwardKeys == {p.Namespace \o <<"/">> \o p.Name : p \in {ApiPodA, ApiPodB, ApiPodC}}

\* C8: at most one port-forward child is alive per workload key, and it is the
\* one the registry holds for that key; no child is spawned for a key that has
\* a registry entry; the key f on a key that has an entry removes the entry and
\* ends its child.
C8_OneForwardPerKey ==
    /\ [](\A key \in ForwardKeys :
              /\ Cardinality({pr \in procs : pr.key = key}) <= 1
              /\ \A pr \in procs :
                     pr.key = key =>
                         key \in DOMAIN activeForwards /\ activeForwards[key] = pr.pid)
    /\ [][/\ \A pr \in procs' \ procs : pr.key \notin DOMAIN activeForwards
          /\ (Len(filteredPods) > 0 /\ cursor < Len(filteredPods) /\ ListForward("f")) =>
                 LET key == filteredPods[cursor + 1].Namespace \o <<"/">>
                                \o filteredPods[cursor + 1].Name
                 IN  key \in DOMAIN activeForwards =>
                         /\ key \notin DOMAIN activeForwards'
                         /\ \A pr \in procs' : pr.key # key
                         /\ procs' \subseteq procs
         ]_vars

\* C8 witness: one forward has been stopped with f while another is still
\* running and registered.
C8_Witness ==
    /\ msg[1] = "Stopped forwarding %s"
    /\ Cardinality(procs) = 1
    /\ Cardinality(DOMAIN activeForwards) = 1

\* C9: when the program has ended, every port-forward the registry tracks has
\* been signaled: none of them is still alive.
C9_NoForwardOutlivesProgram ==
    phase # "running" =>
        \A key \in DOMAIN activeForwards : activeForwards[key] \notin LivePids

C11_FailedSpawnStoresNothing ==
    /\ [](phase # "quit" =>
             \A key \in DOMAIN activeForwards :
                 \E pr \in procs : pr.key = key /\ pr.pid = activeForwards[key])
    /\ [][/\ \A key \in DOMAIN activeForwards' \ DOMAIN activeForwards :
                 \E pr \in procs' \ procs : pr.key = key
          /\ (/\ procs' = procs
              /\ Len(filteredPods) > 0 /\ cursor < Len(filteredPods)
              /\ PodKey(filteredPods[cursor + 1]) \notin DOMAIN activeForwards
              /\ ListForward("f")) =>
                 /\ activeForwards' = activeForwards
                 /\ msg' = <<"Forward fail: %v">>
                 /\ state' = viewList
         ]_vars

\* C11 witness: a spawn has failed while another forward is registered and
\* running.
C11_Witness ==
    /\ msg = <<"Forward fail: %v">>
    /\ state = viewList
    /\ Cardinality(DOMAIN activeForwards) = 1
    /\ Cardinality(procs) = 1


\* C12: enter (view logs) or s (open shell) on the workload under the cursor
\* opens the container picker iff the workload has more than one container;
\* with one container the action is started at once with that container's
\* name, with none it is started at once with the empty name; view-logs then
\* enters the log view and open-shell stays in the list.
C12_PickerIffSeveralContainers ==
    [][\A k \in {"enter", "s"} :
           (ListAction(k) /\ Len(filteredPods) > 0 /\ cursor < Len(filteredPods)) =>
               LET pod == filteredPods[cursor + 1]
                   n == Len(pod.Containers)
                   name == IF k = "enter" THEN "fetchLogs" ELSE "openShell"
                   direct == IF k = "enter" THEN viewLogs ELSE viewList
               IN  /\ (state' = viewContainerSelect) <=> (n > 1)
                   /\ n > 1 => cmds' = {}
                   /\ n = 1 => /\ cmds' = {<<name, pod.Namespace, pod.Name, pod.Containers[1]>>}
                               /\ state' = direct
                   /\ n = 0 => /\ cmds' = {<<name, pod.Namespace, pod.Name, "">>}
                               /\ state' = direct
      ]_vars

\* C12 witness: after the picker has been used for the logs of a workload with
\* two containers, a shell has been opened at once on one that has none.
C12_Witness ==
    /\ state = viewList
    /\ targetAction = "logs"
    /\ cmds = {<<"openShell", <<"p">>, <<"q">>, "">>}

\* C13: whenever the session is in the list no pending action is set: the
\* requested operation and the container list recorded on entering the picker
\* have been cleared.
C13_NoPendingActionInList ==
    state = viewList => (targetAction = "" /\ containerList = <<>>)


\* the fetches of a kind in flight
Flying(kind) == CopiesIn(<<kind>>, inflight)

RefreshCmds == {<<"fetchPods">>, <<"fetchClusterStats">>, <<"fetchNamespaces">>}

\* C15: at startup and on every timer tick the three fetches are started
\* together: workload snapshot, cluster summary and namespace list.
C15_ThreeFetchesEveryTick ==
    /\ RefreshCmds \subseteq cmds
    /\ [][TickMsg => RefreshCmds \subseteq cmds']_vars

\* C16: a failed fetch of the workload list or of the cluster summary leaves
\* the workload snapshot, the filtered view, the cursor and the cluster summary
\* as they were.
C16_FailedFetchKeepsSnapshot ==
    [][(StatsMsg(NoStats) \/ ReturnsNil(<<"fetchPods">>)) =>
           UNCHANGED <<pods, filteredPods, cursor, clusterStats>>
      ]_vars

\* C17: when the cluster has rejected a destructive action, the status line
\* after its result carries the error and differs from the text of success,
\* and the session is in the list.
C17_RejectionIsSurfaced ==
    [][\A c \in DestructiveCmds :
           DeleteMsg(c, DeleteResult(c, FALSE)) =>
               /\ msg' # DeleteResult(c, TRUE)
               /\ state' = viewList
      ]_vars


\* C18: while the search bar is open a key other than enter and esc goes to the
\* search term (a letter is appended) and the view is filtered again with the
\* new term at once; no step taken while the bar is open quits, changes the
\* sort order or the namespace, stages a target, touches the registry or
\* starts a destructive action, and the cursor moves only when a snapshot
\* arrives; enter and esc close the bar and leave the term and the view as
\* they were.
C18_SearchTakesTheKeys ==
    [][searchActive =>
           /\ UNCHANGED <<phase, state, sort, currentNsIdx, showIssues, podToDelete,
                          activeForwards, procs, stopAlls>>
           /\ cursor' # cursor => Flying("fetchPods")' < Flying("fetchPods")
           /\ \A c \in DestructiveCmds : ~Dispatched(c)
           /\ \A k \in SearchKeys :
                  /\ SearchType(k) =>
                         /\ k \in RuneKeys => textInput' = Append(textInput, k)
                         /\ PodsOf(filteredPods') =
                                {p \in PodsOf(pods) :
                                    /\ SelectedNs = NsALL \/ p.Namespace = SelectedNs
                                    /\ Contains(ToLower(p.Name), ToLower(textInput'))}
                         /\ searchActive'
                         /\ cmds' = {}
                  /\ SearchClose(k) =>
                         /\ ~searchActive'
                         /\ UNCHANGED <<textInput, filteredPods, pods, cursor>>
                         /\ cmds' = {}
      ]_vars

\* C18 witness: the letter d, the key that stages a delete in the list, has
\* been typed into the search bar with the cursor on a row: it is the term,
\* the view has been filtered by it, and nothing is staged.
C18_Witness ==
    /\ searchActive
    /\ textInput = <<"d">>
    /\ Len(pods) > 0
    /\ filteredPods = <<>>
    /\ state = viewList
    /\ podToDelete = <<>>


Overlays == {viewLogs, viewDiagnosis, viewYaml}

\* C19: in the log, diagnosis and manifest views esc and q return the session
\* to the list; any other key leaves the session state as it is; no key
\* pressed there changes the snapshot, the filter configuration, the cursor or
\* the registry, and no step taken in these states ends the program.
C19_OverlaysOnlyClose ==
    [][(state \in Overlays) =>
           /\ phase' = phase
           /\ \A k \in Keys :
                  OverlayKey(k) =>
                      /\ state' = (IF k \in {"esc", "q"} THEN viewList ELSE state)
                      /\ UNCHANGED <<pods, filteredPods, namespaces, currentNsIdx,
                                     showIssues, sort, textInput, cursor,
                                     activeForwards, procs, stopAlls>>
                      /\ cmds' = {}
      ]_vars

\* C19 witness: the log view has been left with q with the cursor off the first
\* row, and the program still runs.
C19_Witness ==
    /\ msg = <<"Dashboard">>
    /\ state = viewList
    /\ selectedPod # <<>>
    /\ cursor > 0
    /\ phase = "running"


\* the viewport capacity P for the terminal height held
PerPage == perPage(height)

\* C20: for every snapshot, cursor and terminal height the program reaches, the
\* pagination window is at most P rows long, and when it is not empty the
\* cursor lies inside it (start <= cursor < end).
C20_CursorInsideWindow ==
    LET w == calculatePagination(height, cursor, Len(filteredPods))
    IN  /\ w[2] - w[1] <= PerPage
        /\ w[2] > w[1] => (w[1] <= cursor /\ cursor < w[2])

\* the same for a cursor that is on a row of the view
C20_ValidCursorInsideWindow ==
    (cursor < Len(filteredPods)) => C20_CursorInsideWindow

\* a window shorter than the view has been scrolled down to the cursor
C20_Scrolled ==
    /\ Len(filteredPods) > PerPage
    /\ cursor >= PerPage
    /\ cursor < Len(filteredPods)

\* the usage the metrics API reports for a workload, zero when it has no sample
UsageOf(p) ==
    LET uMap == uMapOf(ClusterMetrics)
    IN  IF PodKey(p) \in DOMAIN uMap THEN uMap[PodKey(p)] ELSE [Cpu |-> 0, Mem |-> 0]

\* C21: in CPU-sort mode the view is non-increasing in CPU usage from the first
\* row to the last, and in memory-sort mode in memory usage, a workload without
\* a metrics sample counting as zero; the rows of the snapshots are the ones
\* fetchPods makes of the pods and the samples listed.
C21_UsageSortNonIncreasing ==
    /\ ClusterPods = fetchPods(<<ApiPodA, ApiPodB, ApiPodC>>, ClusterMetrics)
    /\ \A i, j \in 1..Len(filteredPods) :
           i < j =>
               /\ sort = sortCPU =>
                      UsageOf(filteredPods[i]).Cpu >= UsageOf(filteredPods[j]).Cpu
               /\ sort = sortMem =>
                      UsageOf(filteredPods[i]).Mem >= UsageOf(filteredPods[j]).Mem

\* C21 witness: the CPU-sorted view of three workloads ends with the one that
\* has no sample.
C21_Witness ==
    /\ sort = sortCPU
    /\ Len(filteredPods) = 3
    /\ filteredPods[3] = PodB
    /\ PodKey(PodB) \notin DOMAIN uMapOf(ClusterMetrics)

\* the place of a workload in the snapshot, the order the rows had before the sort
PlaceOf(p) == CHOOSE k \in 1..Len(pods) : pods[k] = p

\* C22: in every sort mode two rows of the view with equal sort keys are in the
\* relative order they had before the sort.
C22_SortIsStable ==
    \A i, j \in 1..Len(filteredPods) :
        (/\ i < j
         /\ ~SortLess(filteredPods[i], filteredPods[j], sort)
         /\ ~SortLess(filteredPods[j], filteredPods[i], sort)) =>
            PlaceOf(filteredPods[i]) < PlaceOf(filteredPods[j])

C27_DefaultSortOrder ==
    sort = sortDefault =>
        \A i, j \in 1..Len(filteredPods) :
            i < j =>
                LET a == filteredPods[i]
                    b == filteredPods[j]
                IN  /\ ~(a.Status = "Running" /\ b.Status # "Running")
                    /\ ((a.Status = "Running") <=> (b.Status = "Running")) =>
                           ~StrLess(b.Name, a.Name)

\* C27 witness: a workload that is not Running stands before a Running one
\* whose name is smaller.
C27_Witness ==
    /\ sort = sortDefault
    /\ filteredPods = <<PodB, PodA, PodC>>
    /\ StrLess(PodA.Name, PodB.Name)

\* the pod fetchPods was run on, its container statuses and its merged record
StudiedPod == pList[1]
StudiedStatuses == StudiedPod.ContainerStatuses
StudiedInfo == merged[1][1]

\* the note of a waiting or terminated container status, as it is displayed
ReasonShown(c) ==
    IF c.Waiting # "" THEN <<c.Waiting>>
    ELSE IF c.ExitCode # 0 THEN <<c.Terminated, " (">> \o Itoa(c.ExitCode) \o <<")">>
    ELSE <<c.Terminated>>

\* C24: the note of a workload is a waiting reason of one of its containers when
\* there is one, whatever its phase and readiness; otherwise a terminated
\* reason, with the non-zero exit code appended, when there is one, even in
\* phase Succeeded; otherwise "[OK]" for a Running and fully ready workload and
\* "Completed" for a Succeeded one.
C24_NotePriority ==
    merged # <<>> =>
        LET sts == StudiedStatuses
            waiting == {i \in 1..Len(sts) : sts[i].Waiting # ""}
            terminated == {i \in 1..Len(sts) : sts[i].Waiting = "" /\ sts[i].Terminated # ""}
            note == StudiedInfo.Message
        IN  IF waiting # {} THEN \E i \in waiting : note = ReasonShown(sts[i])
            ELSE IF terminated # {} THEN \E i \in terminated : note = ReasonShown(sts[i])
            ELSE IF StudiedPod.Phase = "Running" /\ \A i \in 1..Len(sts) : sts[i].Ready
                 THEN note = <<"[OK]">>
            ELSE StudiedPod.Phase = "Succeeded" => note = <<"Completed">>

\* what the code does instead: "Completed" in phase Succeeded; else "[OK]" when
\* Running with every container ready; else the reason of the last container
\* status that has one; else "[OK]"
C24_NoteAsComputed ==
    merged # <<>> =>
        LET sts == StudiedStatuses
            reasons == {i \in 1..Len(sts) : sts[i].Waiting # "" \/ sts[i].Terminated # ""}
            note == StudiedInfo.Message
        IN  IF StudiedPod.Phase = "Succeeded" THEN note = <<"Completed">>
            ELSE IF StudiedPod.Phase = "Running" /\ \A i \in 1..Len(sts) : sts[i].Ready
                 THEN note = <<"[OK]">>
            ELSE IF reasons # {}
                 THEN note = ReasonShown(sts[CHOOSE i \in reasons : \A j \in reasons : j <= i])
            ELSE note = <<"[OK]">>

\* C28: the restart count of the merged record is the sum of the restart counts
\* of the container statuses; it is ready exactly when every container status is
\* ready and there is at least one, or the phase is Succeeded; a Running
\* workload without container statuses is not ready, and the issues-only filter
\* keeps it.
C28_MergedRestartsAndReady ==
    merged # <<>> =>
        LET sts == StudiedStatuses
            n == Len(sts)
            upTo[i \in 0..n] == IF i = 0 THEN 0 ELSE upTo[i - 1] + sts[i].RestartCount
        IN  /\ StudiedInfo.Restarts = upTo[n]
            /\ StudiedInfo.IsReady <=>
                   \/ (\A i \in 1..n : sts[i].Ready) /\ n > 0
                   \/ StudiedPod.Phase = "Succeeded"
            /\ (StudiedPod.Phase = "Running" /\ n = 0) =>
                   /\ ~StudiedInfo.IsReady
                   /\ (showIssues /\ pods = fetchPods(pList, mList)) => filteredPods = pods

\* C28 witness: the issues-only view shows a Running workload that has no
\* container statuses.
C28_Witness ==
    /\ merged # <<>>
    /\ StudiedPod.Phase = "Running"
    /\ StudiedStatuses = <<>>
    /\ showIssues
    /\ pods = fetchPods(pList, mList)
    /\ filteredPods = pods

\* C25: the window handed to the renderer lies inside the view,
\* 0 <= start <= end <= len(filteredPods), in every state, so that the rows
\* start..end-1 the renderer reads all exist.
C25_WindowInsideView ==
    LET w == calculatePagination(height, cursor, Len(filteredPods))
    IN  0 <= w[1] /\ w[1] <= w[2] /\ w[2] <= Len(filteredPods)

\* C26: the viewport capacity is at least 5 for every terminal height.
C26_CapacityAtLeastFive == PerPage >= FallbackPerPage

\* the window lies inside the view whenever the cursor is on a row of it
C25_ValidCursorWindowInsideView ==
    (cursor < Len(filteredPods)) => C25_WindowInsideView

\* C29: the staged target is set exactly in the two confirm states that act on
\* it: a target is held whenever the session is in viewDeleteConfirm or
\* viewRestartConfirm, and none is held in any other state.
C29_TargetIffConfirmState ==
    (podToDelete # <<>>) <=> (state \in {viewDeleteConfirm, viewRestartConfirm})

\* C29 witness: a delete is staged on a workload that a later snapshot no longer
\* holds.
C29_Witness ==
    /\ state = viewDeleteConfirm
    /\ podToDelete = <<PodC>>
    /\ pods = <<PodA>>

\* C30: the namespace index is an index of the namespace list and the first
\* entry of the list is "ALL", whenever the namespace result arrives; the key n
\* on a list of more than one entry selects the next entry, or "ALL" after the
\* last one, resets the cursor to 0 and the sort mode to the default.
C30_NamespaceIndexValid ==
    /\ [](/\ currentNsIdx \in 0..(Len(namespaces) - 1)
          /\ namespaces[1] = NsALL)
    /\ [][(ListNamespace("n") /\ Len(namespaces) > 1) =>
              /\ currentNsIdx' = (currentNsIdx + 1) % Len(namespaces)
              /\ cursor' = 0
              /\ sort' = sortDefault
         ]_vars

\* C30 witness: the selection has been cycled to the last entry of a list of
\* three, from a sorted view with the cursor off the first row.
C30_Witness ==
    /\ Len(namespaces) = 3
    /\ currentNsIdx = 2
    /\ sort = sortDefault
    /\ cursor = 0
    /\ Len(pods) = 3

\* C34: the target staged on entering viewDeleteConfirm or viewRestartConfirm
\* is the record under the cursor at that step; while the confirm state is
\* active no step other than a key of that state (a tick, a snapshot, a
\* cluster summary, a namespace list, a failed fetch) changes the target or
\* the state, and no key but an affirmative or negative one does; the
\* affirmative key starts the delete of exactly the staged workload and
\* nothing else, wherever the cursor is and whatever the view holds by then.
C34_StagedTargetIsKept ==
    [][/\ (/\ state = viewList
           /\ state' \in {viewDeleteConfirm, viewRestartConfirm}) =>
              /\ \E k \in {"r", "d"} : ListStage(k)
              /\ cursor < Len(filteredPods)
              /\ podToDelete' = <<filteredPods[cursor + 1]>>
       /\ (state \in {viewDeleteConfirm, viewRestartConfirm}) =>
              /\ \/ UNCHANGED <<podToDelete, state>>
                 \/ \E k \in AffirmKeys \cup NegativeKeys : TargetConfirmKey(k)
              /\ \A k \in AffirmKeys :
                     (state' = viewList /\ TargetConfirmKey(k)) =>
                         /\ cmds' = {<<"deletePod", podToDelete[1].Namespace,
                                                   podToDelete[1].Name>>}
                         /\ Dispatched(<<"deletePod", podToDelete[1].Namespace,
                                                     podToDelete[1].Name>>)
      ]_vars

\* C34 witness: the delete of a staged workload has been
\* started after a snapshot without it left two other rows in the view and a
\* cluster summary arrived.
C34_Witness ==
    /\ cmds = {<<"deletePod", PodC.Namespace, PodC.Name>>}
    /\ PodsOf(filteredPods) = {PodA, PodB}
    /\ clusterStats # NoStats
    /\ state = viewList

\* C31: the search bar is open only in viewList: a step opens it only from
\* viewList, by the key /, and no step taken while it is open changes the
\* session state, so it is never open in an overlay or a confirm state.
C31_SearchOnlyInList ==
    [][/\ searchActive' => state' = viewList
       /\ (~searchActive /\ searchActive') => (state = viewList /\ ListSearch("/"))
       /\ searchActive => state' = state
      ]_vars

\* C31 witness: the bar is open on the list after an overlay has been visited,
\* and the key that opens the diagnosis has been typed into it as the term.
C31_Witness ==
    /\ searchActive
    /\ textInput = <<"?">>
    /\ selectedPod # <<>>
    /\ Len(pods) > 0
    /\ state = viewList

\* the fields of the model
modelVars ==
    <<pods, filteredPods, namespaces, currentNsIdx, state, sort, cursor, showIssues,
      msg, searchActive, textInput, podToDelete, selectedPod, containerList,
      containerCursor, targetAction, activeForwards, clusterStats, height, viewport>>

\* the refresh timers armed and not yet handled
Timers == CopiesIn(TickCmd, inflight)

EntryFetch ==
    [s \in Overlays |->
        IF s = viewLogs THEN "fetchLogs"
        ELSE IF s = viewDiagnosis THEN "diagnosePod" ELSE "fetchYaml"]

\* C32: while an overlay is shown, a step replaces the content of the viewport
\* only by the result of the one-shot fetch of that overlay's kind for the
\* selected workload; the late result of a fetch of another kind or for another
\* workload never replaces it.
C32_OnlyTheEntryFetchShows ==
    [][(state \in Overlays /\ viewport' # viewport) =>
           /\ viewport' # <<>>
           /\ viewport'[1][1] = EntryFetch[state]
           /\ viewport'[1][2] = selectedPod[1].Namespace
           /\ viewport'[1][3] = selectedPod[1].Name
      ]_vars

====
